---------------------------- MODULE Spec2Model ----------------------------
(***************************************************************************)
(* Contact-finder pipeline: the bounded site crawl (src/src/crawl.py), the *)
(* search wrapper with retry/backoff, the resolver and the contact hunt    *)
(* (src/src/search.py), the per-row orchestration (src/src/main.py) and    *)
(* the extractor (src/src/extract.py).                                     *)
(*                                                                         *)
(* URLs, hosts and addresses are strings, and the string functions of the  *)
(* code (endswith, "in", split, lower, urlparse, urljoin) are computed on  *)
(* them character by character.  A page's HTML is abstracted to what the   *)
(* code reads from it: its anchors' hrefs, the addresses on it and whether *)
(* it holds a contact form.                                                *)
(***************************************************************************)
EXTENDS Integers, Sequences, FiniteSets, TLC

\* ------------------------------------------------------------------------
\* Bounds of the model
\* ------------------------------------------------------------------------
\* How many entries of CONTACT_PATHS (from the front of the list) are probed.
MaxContactPaths == 3
\* MAX_PAGES_PER_SITE is read from the environment: it ranges over 1..MaxPagesCfg.
MaxPagesCfg == 2
\* GOOGLE_CSE_MAX_RETRIES is read from the environment: it ranges over 0..MaxRetriesCfg.
MaxRetriesCfg == 2
\* The argument limit of google_contact_hunt ranges over 0..MaxLimit and one value
\* above MAX_GOOGLE_CANDIDATES.
MaxLimit == 2

\* ------------------------------------------------------------------------
\* Python string functions
\* ------------------------------------------------------------------------
Ch(s, i) == SubSeq(s, i, i)

StartsWith(s, t) == Len(s) >= Len(t) /\ SubSeq(s, 1, Len(t)) = t

EndsWith(s, t) == Len(s) >= Len(t) /\ SubSeq(s, Len(s) - Len(t) + 1, Len(s)) = t

\* t in s
Contains(s, t) == \E i \in 1..(Len(s) - Len(t) + 1) : SubSeq(s, i, i + Len(t) - 1) = t

\* s.find(t): the first index (1-based) of t in s, 0 when absent
Find(s, t) ==
    IF Contains(s, t)
    THEN CHOOSE i \in 1..(Len(s) - Len(t) + 1) :
            /\ SubSeq(s, i, i + Len(t) - 1) = t
            /\ \A j \in 1..(i - 1) : SubSeq(s, j, j + Len(t) - 1) # t
    ELSE 0

\* s.split(t)[0]
SplitFirst(s, t) == IF Contains(s, t) THEN SubSeq(s, 1, Find(s, t) - 1) ELSE s

\* The index of the last character of s that is in chars, 0 when there is none.
LastOf(s, chars) ==
    IF \E i \in 1..Len(s) : Ch(s, i) \in chars
    THEN CHOOSE i \in 1..Len(s) :
            Ch(s, i) \in chars /\ \A j \in (i + 1)..Len(s) : Ch(s, j) \notin chars
    ELSE 0

\* s.split(t)[-1], t a single character
SplitLast(s, t) == SubSeq(s, LastOf(s, {t}) + 1, Len(s))

LowerChar(c) ==
    CASE c = "A" -> "a" [] c = "B" -> "b" [] c = "C" -> "c" [] c = "D" -> "d"
      [] c = "E" -> "e" [] c = "F" -> "f" [] c = "G" -> "g" [] c = "H" -> "h"
      [] c = "I" -> "i" [] c = "J" -> "j" [] c = "K" -> "k" [] c = "L" -> "l"
      [] c = "M" -> "m" [] c = "N" -> "n" [] c = "O" -> "o" [] c = "P" -> "p"
      [] c = "Q" -> "q" [] c = "R" -> "r" [] c = "S" -> "s" [] c = "T" -> "t"
      [] c = "U" -> "u" [] c = "V" -> "v" [] c = "W" -> "w" [] c = "X" -> "x"
      [] c = "Y" -> "y" [] c = "Z" -> "z" [] OTHER -> c

RECURSIVE Lower(_)
Lower(s) == IF Len(s) = 0 THEN "" ELSE LowerChar(Ch(s, 1)) \o Lower(SubSeq(s, 2, Len(s)))

RECURSIVE Strip(_)
Strip(s) ==
    IF Len(s) = 0 THEN s
    ELSE IF Ch(s, 1) = " " THEN Strip(SubSeq(s, 2, Len(s)))
    ELSE IF Ch(s, Len(s)) = " " THEN Strip(SubSeq(s, 1, Len(s) - 1))
    ELSE s

\* The index of the first character of s that is in chars, Len(s)+1 when there
\* is none.
FirstOf(s, chars) ==
    IF \E i \in 1..Len(s) : Ch(s, i) \in chars
    THEN CHOOSE i \in 1..Len(s) :
            Ch(s, i) \in chars /\ \A j \in 1..(i - 1) : Ch(s, j) \notin chars
    ELSE Len(s) + 1

\* The one element of a singleton set.  Only({e(v) : v \in {d}}) is e(d), with d
\* evaluated once however often e uses it.
Only(S) == CHOOSE r \in S : TRUE

\* The scheme of u, given the index i of "://" in u: what precedes it, unless a
\* "/" is in that.
UrlScheme(u, i) ==
    IF i > 1 /\ ~Contains(SubSeq(u, 1, i - 1), "/") THEN Lower(SubSeq(u, 1, i - 1)) ELSE ""

\* The parts of u, given its scheme, that u has a netloc, and what follows "//".
UrlParts(u, sch, hasNet, rest) ==
    [scheme |-> sch,
     netloc |-> IF hasNet THEN SubSeq(rest, 1, FirstOf(rest, {"/", "?", "#"}) - 1) ELSE "",
     path   |-> Only({SubSeq(tail, 1, FirstOf(tail, {"?", "#"}) - 1) :
                      tail \in {IF hasNet
                                THEN SubSeq(rest, FirstOf(rest, {"/", "?", "#"}), Len(rest))
                                ELSE u}})]

UrlAfterScheme(u, sch) ==
    UrlParts(u, sch, sch # "" \/ StartsWith(u, "//"),
             IF sch # "" THEN SubSeq(u, Len(sch) + 4, Len(u))
             ELSE IF StartsWith(u, "//") THEN SubSeq(u, 3, Len(u))
             ELSE "")

\* urllib.parse.urlparse, for "<scheme>://<netloc><path>...", "//<netloc><path>..."
\* and strings with no "//" (no netloc: the whole string is the path).
urlparse(u) == UrlAfterScheme(u, UrlScheme(u, Find(u, "://")))

\* urllib.parse.urljoin(base, href) for an absolute href, a scheme-relative
\* href ("//host/..."), and a root-relative href ("/path").
urljoin(base, href) ==
    IF urlparse(href).scheme # "" THEN href
    ELSE Only({IF StartsWith(href, "//") THEN b.scheme \o ":" \o href
               ELSE b.scheme \o "://" \o b.netloc \o href : b \in {urlparse(base)}})

\* tldextract.extract(host).suffix is non-empty: the host ends in a public suffix.
PUBLIC_SUFFIXES == {"com", "org", "uk", "co.uk"}

HasPublicSuffix(host) == SplitLast(Lower(host), ".") \in PUBLIC_SUFFIXES

\* ------------------------------------------------------------------------
\* State
\* ------------------------------------------------------------------------
VARIABLES
    \* configuration read from the environment (config.py, main.py)
    MAX_PAGES_PER_SITE,
    GOOGLE_CSE_MAX_RETRIES,
    GOOGLE_CSE_QPS_DELAY_MS,
    cse_configured,  \* GOOGLE_CSE_KEY and GOOGLE_CSE_CX are both set
    \* crawl.crawl_site
    cpc,        \* where crawl_site stands: start, probe, links, done
    start_url,  \* the start URL, normalised
    html,       \* the homepage's HTML: the hrefs of its anchors, in order
    out,        \* the keys of the result dict {url: html}, in insertion order
    fetched,    \* the local counter of crawl_site
    pidx,       \* position in CONTACT_PATHS
    more,       \* the links _discover_contactish_links returned
    midx,       \* position in more
    clog,       \* what crawl_site did so far: its fetches and sleeps, in order
    \* search.py: find_official_site / google_contact_hunt calling _google_search
    spc,        \* entry, query (the caller's loop), attempt (in _google_search), done, raised
    caller,     \* which of the two functions runs
    company,    \* argument company
    domain_hint,\* argument domain_hint (find_official_site) / domain_for_site (google_contact_hunt)
    location,   \* argument location (google_contact_hunt)
    limit,      \* argument limit (google_contact_hunt), as clamped on entry
    limit_arg,  \* argument limit (google_contact_hunt), as passed
    queries,    \* the list of queries built on entry
    qidx,       \* position in queries
    attempt,    \* the loop variable of _google_search
    last_exc,   \* _google_search's last_exc is set
    results,    \* candidates (find_official_site) / results (google_contact_hunt)
    ret,        \* the value returned: the list (google_contact_hunt); <<url>>, or <<>> for
                \* None (find_official_site)
    slog,       \* what the current call of _google_search did: requests and sleeps
    requested,  \* a request was sent to the provider since the caller was entered
    \* main.run
    ALLOW_GUESS,
    PREFER_COMPANY_DOMAIN,
    MAX_ROWS,
    rpc,        \* where run stands: start, row, resolve, crawl, pages, hunt,
                \* hunt_fetch, finish, done; aborted when an exception left run
    sheet,      \* the worksheet's data rows; the row numbered rownum is sheet[rownum - 1]
    web,        \* the pages the web serves, by URL
    rownum,     \* the loop variable of run
    end_row,    \* the last value of the loop's range
    row_vals,   \* the row as read at the top of the loop body
    website,
    home_html,  \* <<page>>, or <<>> for None
    cand,
    cidx,       \* position in cand[:MAX_PAGES_PER_SITE]
    seen_pages,
    emails,
    email_sources, \* the dict, as its set of <<address, url>> items
    forms,
    hcand,      \* google_contact_hunt's candidates[:10]
    hidx,       \* position in hcand
    wlog,       \* the cells written so far, in order
    flog,       \* the pages requested for the current row, in order
    extracted,  \* the addresses extract_emails_and_forms returned for the current row
    started,    \* the rows with a Company that the loop body was entered for
    rreqs,      \* the provider requests of the current row's find_official_site
    \* extract.extract_contacts
    xpc,        \* "idle", "ready" (between calls), "loop" (inside a call), "done"
    EX_PREFER_COMPANY_DOMAIN,   \* extract.py's PREFER_COMPANY_DOMAIN (config.py)
    pages,      \* argument pages: the (url, html) items of the dict, in its order
    preferred_domain,           \* argument preferred_domain ("" for None)
    xi,         \* index into pages of the loop of lines 152-168
    emails_all, \* local emails_all
    ex_email_sources,           \* local email_sources, a set of <<address, url>>
    ex_forms,   \* local forms
    returned    \* the dicts returned by the calls made so far, in order

cfgVars == <<MAX_PAGES_PER_SITE, GOOGLE_CSE_MAX_RETRIES, GOOGLE_CSE_QPS_DELAY_MS, cse_configured>>
crawlVars == <<cpc, start_url, html, out, fetched, pidx, more, midx, clog>>
searchVars == <<spc, caller, company, domain_hint, location, limit, limit_arg, queries, qidx,
                attempt, last_exc, results, ret, slog, requested>>
runVars == <<ALLOW_GUESS, PREFER_COMPANY_DOMAIN, MAX_ROWS, rpc, sheet, web, rownum, end_row,
             row_vals, website, home_html, cand, cidx, seen_pages, emails, email_sources,
             forms, hcand, hidx, wlog, flog, extracted, started, rreqs>>
extractVars == <<xpc, EX_PREFER_COMPANY_DOMAIN, pages, preferred_domain, xi, emails_all,
                 ex_email_sources, ex_forms, returned>>
vars == <<cfgVars, crawlVars, searchVars, runVars, extractVars>>
notCrawl == <<cfgVars, searchVars, runVars, extractVars>>
notSearch == <<cfgVars, crawlVars, runVars, extractVars>>
notRun == <<cfgVars, crawlVars, searchVars, extractVars>>
notExtract == <<cfgVars, crawlVars, searchVars, runVars>>

\* A component that is not running.
IdleCfg ==
    /\ MAX_PAGES_PER_SITE = 1
    /\ GOOGLE_CSE_MAX_RETRIES = 1
    /\ GOOGLE_CSE_QPS_DELAY_MS = 0
    /\ cse_configured = FALSE

IdleCrawl ==
    /\ cpc = "idle" /\ start_url = "" /\ html = <<>> /\ out = <<>> /\ fetched = 0
    /\ pidx = 1 /\ more = <<>> /\ midx = 1 /\ clog = <<>>

IdleSearch ==
    /\ spc = "idle" /\ caller = "" /\ company = "" /\ domain_hint = "" /\ location = ""
    /\ limit = 0 /\ limit_arg = 0 /\ queries = <<>> /\ qidx = 1 /\ attempt = 0
    /\ last_exc = FALSE
    /\ results = <<>> /\ ret = <<>> /\ slog = <<>> /\ requested = FALSE

IdleExtract ==
    /\ xpc = "idle" /\ EX_PREFER_COMPANY_DOMAIN = TRUE /\ pages = <<>>
    /\ preferred_domain = "" /\ xi = 1 /\ emails_all = {} /\ ex_email_sources = {}
    /\ ex_forms = {} /\ returned = <<>>

\* The locals of run's loop body before the first row is read.
NoRow ==
    /\ row_vals = <<>> /\ website = "" /\ home_html = <<>> /\ cand = <<>> /\ cidx = 1
    /\ seen_pages = {} /\ emails = {} /\ email_sources = {} /\ forms = <<>>
    /\ hcand = <<>> /\ hidx = 1 /\ flog = <<>> /\ extracted = {} /\ rreqs = <<>>

IdleRun ==
    /\ ALLOW_GUESS = FALSE /\ PREFER_COMPANY_DOMAIN = TRUE /\ MAX_ROWS = 0
    /\ rpc = "idle" /\ sheet = <<>> /\ web = <<>> /\ rownum = 0 /\ end_row = 0
    /\ wlog = <<>> /\ started = {}
    /\ NoRow

\* ------------------------------------------------------------------------
\* config.py
\* ------------------------------------------------------------------------
CONTACT_PATHS ==
    << "/contact", "/contact/", "/contact-us", "/contact-us/", "/contactus",
       "/contact.html", "/contact.htm", "/contact.php",
       "/company/contact",
       "/get-in-touch", "/get-in-touch/", "/getintouch",
       "/support", "/help",
       "/about", "/about-us", "/find-us", "/where-to-find-us",
       "/privacy", "/privacy-policy", "/legal", "/imprint", "/impressum",
       "/team" >>

\* The entries of CONTACT_PATHS the model probes.
ContactPaths == SubSeq(CONTACT_PATHS, 1, MaxContactPaths)

FETCH_DELAY_MS == 250

\* ------------------------------------------------------------------------
\* crawl.py
\* ------------------------------------------------------------------------
SeqToSet(q) == {q[i] : i \in 1..Len(q)}

\* _same_host(base, href)
_same_host(base, href) ==
    \E b \in {urlparse(base).netloc}, h \in {urlparse(href).netloc} :
        \E bhost \in {Lower(SplitFirst(b, ":"))},
           hhost \in {Lower(SplitFirst(IF h # "" THEN h ELSE b, ":"))} :
            IF bhost # "" THEN EndsWith(hhost, bhost) ELSE TRUE

NON_HTTP_PREFIXES == {"mailto:", "tel:", "javascript:", "data:", "about:"}

\* _is_plausible_http_url(u)
_is_plausible_http_url(u0) ==
    \E low \in {Lower(Strip(u0))}, p \in {urlparse(Strip(u0))} :
        \E host \in {SplitFirst(SplitLast(p.netloc, "@"), ":")} :
            /\ u0 # ""
            /\ \A s \in NON_HTTP_PREFIXES : ~StartsWith(low, s)
            /\ p.scheme \in {"http", "https"}
            /\ p.netloc # ""
            /\ ~(host = "" \/ Contains(host, " ") \/ StartsWith(host, "-")
                 \/ EndsWith(host, "-"))
            /\ HasPublicSuffix(host)

CONTACTISH_TOKENS ==
    {"contact", "kontakt", "impressum", "privacy", "support", "help",
     "about", "team", "find-us", "where-to-find-us"}

\* _is_contactish(href)
_is_contactish(href) ==
    href # "" /\ \E token \in CONTACTISH_TOKENS : Contains(Lower(href), token)

\* _discover_contactish_links, the body of the loop for one anchor: acc with the
\* anchor's link added, unless it is skipped.  href is the stripped href, low is
\* href.lower(), abs_url is urljoin(base_url, href).
DiscoverOne(base_url, href, low, abs_url, acc) ==
    IF \/ href = ""
       \/ StartsWith(low, "#")
       \/ \E s \in NON_HTTP_PREFIXES : StartsWith(low, s)
       \/ ~_is_plausible_http_url(abs_url)
       \/ ~_same_host(base_url, abs_url)
       \/ ~_is_contactish(abs_url)
       \/ abs_url \in SeqToSet(acc)
    THEN acc
    ELSE Append(acc, abs_url)

\* _discover_contactish_links(base_url, html, max_links): the loop over the anchors,
\* from anchor i on, with the links collected so far in acc.
RECURSIVE DiscoverFrom(_, _, _, _, _)
DiscoverFrom(base_url, hrefs, i, acc, max_links) ==
    IF i > Len(hrefs) \/ Len(acc) >= max_links THEN acc
    ELSE DiscoverFrom(base_url, hrefs, i + 1,
                      DiscoverOne(base_url, Strip(hrefs[i]), Lower(Strip(hrefs[i])),
                                  urljoin(base_url, Strip(hrefs[i])), acc),
                      max_links)

_discover_contactish_links(base_url, hrefs, max_links) ==
    DiscoverFrom(base_url, hrefs, 1, <<>>, max_links)

\* _normalize(url)
_normalize(url) ==
    LET u == Strip(url)
    IN  IF url = "" THEN url
        ELSE IF StartsWith(u, "//") THEN "https:" \o u
        ELSE u

\* The start URLs crawl_site is called with.
StartUrls == {"https://acme.com", " //acme.com/contact", "http://acme.com:8080/"}

\* The homepages a site may serve: the hrefs of the anchors, in document order.
HomePages ==
    { << "/contact", "/team" >>,
      << "https://notacme.com/about", "#top", "mailto:info@acme.com", "/pricing" >>,
      << "https://shop.acme.com/help", "/legal/privacy", "/legal/privacy" >> }

\* A call of _fetch(url), by the statement of line 182 ("start"), of the loop over
\* CONTACT_PATHS ("probe") or of the loop over the discovered links ("link"), and
\* a call of time.sleep.
FetchEv(url, ok, phase) == [op |-> "fetch", url |-> url, ok |-> ok, ms |-> 0, phase |-> phase]
SleepEv(ms) == [op |-> "sleep", url |-> "", ok |-> TRUE, ms |-> ms, phase |-> ""]

\* root = f"{parsed.scheme}://{parsed.netloc}"
root == Only({parsed.scheme \o "://" \o parsed.netloc : parsed \in {urlparse(start_url)}})

InitCrawl ==
    /\ MAX_PAGES_PER_SITE \in 1..MaxPagesCfg
    /\ GOOGLE_CSE_MAX_RETRIES = 1 /\ GOOGLE_CSE_QPS_DELAY_MS = 0 /\ cse_configured = FALSE
    /\ IdleSearch
    /\ IdleRun
    /\ IdleExtract
    /\ cpc = "start"
    /\ start_url \in {_normalize(u) : u \in StartUrls}
    /\ html = <<>>
    /\ out = <<>>
    /\ fetched = 0
    /\ pidx = 1
    /\ more = <<>>
    /\ midx = 1
    /\ clog = <<>>

\* crawl_site, lines 181-187: the homepage fetch; a failure returns the empty dict.
crawl_fetch_home ==
    /\ cpc = "start"
    /\ \E ok \in BOOLEAN, page \in HomePages :
        /\ clog' = Append(clog, FetchEv(start_url, ok, "start"))
        /\ IF ok
           THEN out' = <<start_url>> /\ html' = page /\ cpc' = "probe"
           ELSE out' = out /\ html' = html /\ cpc' = "done"
    /\ UNCHANGED <<notCrawl, start_url, fetched, pidx, more, midx>>

\* A variant of crawl_probe that, when a probe fails, tries the first link
\* discovered on the homepage at once, before the remaining probes.
crawl_probe_interleaved ==
    /\ cpc = "probe"
    /\ pidx <= Len(ContactPaths)
    /\ fetched < MAX_PAGES_PER_SITE
    /\ \E url \in {urljoin(root, ContactPaths[pidx])},
          links \in {_discover_contactish_links(start_url, html, 50)} :
           IF url \in SeqToSet(out)
           THEN UNCHANGED <<out, fetched, clog>>
           ELSE \E ok \in BOOLEAN :
                  IF ok
                  THEN /\ out' = Append(out, url)
                       /\ fetched' = fetched + 1
                       /\ clog' = clog \o <<FetchEv(url, TRUE, "probe"), SleepEv(FETCH_DELAY_MS)>>
                  ELSE /\ clog' = clog \o <<FetchEv(url, FALSE, "probe")>>
                                   \o (IF links = <<>> THEN <<>>
                                       ELSE <<FetchEv(links[1], FALSE, "link")>>)
                       /\ UNCHANGED <<out, fetched>>
    /\ pidx' = pidx + 1
    /\ UNCHANGED <<notCrawl, cpc, start_url, html, more, midx>>

\* crawl_site, lines 192-205: one iteration of the loop over CONTACT_PATHS.
crawl_probe ==
    /\ cpc = "probe"
    /\ pidx <= Len(ContactPaths)
    /\ fetched < MAX_PAGES_PER_SITE
    /\ \E url \in {urljoin(root, ContactPaths[pidx])} :
           IF url \in SeqToSet(out)
           THEN UNCHANGED <<out, fetched, clog>>
           ELSE \E ok \in BOOLEAN :
                  IF ok
                  THEN /\ out' = Append(out, url)
                       /\ fetched' = fetched + 1
                       /\ clog' = clog \o <<FetchEv(url, TRUE, "probe"), SleepEv(FETCH_DELAY_MS)>>
                  ELSE /\ clog' = Append(clog, FetchEv(url, FALSE, "probe"))
                       /\ UNCHANGED <<out, fetched>>
    /\ pidx' = pidx + 1
    /\ UNCHANGED <<notCrawl, cpc, start_url, html, more, midx>>

\* crawl_site, lines 193-194 and 207-210: the probe loop ends (list exhausted or
\* the break), and the homepage's links are collected.
crawl_discover ==
    /\ cpc = "probe"
    /\ (pidx > Len(ContactPaths) \/ fetched >= MAX_PAGES_PER_SITE)
    /\ more' = _discover_contactish_links(start_url, html, 50)
    /\ midx' = 1
    /\ cpc' = "links"
    /\ UNCHANGED <<notCrawl, start_url, html, out, fetched, pidx, clog>>

\* crawl_site, lines 212-223: one iteration of the loop over the discovered links.
crawl_link ==
    /\ cpc = "links"
    /\ midx <= Len(more)
    /\ fetched < MAX_PAGES_PER_SITE
    /\ LET url == more[midx]
       IN  IF url \in SeqToSet(out) \/ ~_is_plausible_http_url(url)
           THEN UNCHANGED <<out, fetched, clog>>
           ELSE \E ok \in BOOLEAN :
                  IF ok
                  THEN /\ out' = Append(out, url)
                       /\ fetched' = fetched + 1
                       /\ clog' = clog \o <<FetchEv(url, TRUE, "link"), SleepEv(FETCH_DELAY_MS)>>
                  ELSE /\ clog' = Append(clog, FetchEv(url, FALSE, "link"))
                       /\ UNCHANGED <<out, fetched>>
    /\ midx' = midx + 1
    /\ UNCHANGED <<notCrawl, cpc, start_url, html, pidx, more>>

\* crawl_site, lines 213-214 and 225-226: the link loop ends and out is returned.
crawl_return ==
    /\ cpc = "links"
    /\ (midx > Len(more) \/ fetched >= MAX_PAGES_PER_SITE)
    /\ cpc' = "done"
    /\ UNCHANGED <<notCrawl, start_url, html, out, fetched, pidx, more, midx, clog>>

NextCrawl ==
    \/ crawl_fetch_home
    \/ crawl_probe
    \/ crawl_discover
    \/ crawl_link
    \/ crawl_return

SpecCrawl == InitCrawl /\ [][NextCrawl]_vars

\* The URLs crawl_site has issued a fetch for.
Fetches == {i \in 1..Len(clog) : clog[i].op = "fetch"}
FetchedUrls == {clog[i].url : i \in Fetches}

\* ------------------------------------------------------------------------
\* Claims about crawl_site (checked under SpecCrawl)
\* ------------------------------------------------------------------------
\* C1: the {url: html} map crawl_site returns holds at most MAX_PAGES_PER_SITE
\* entries, the start page counted.
C1_ReturnedAtMostMaxPages == cpc = "done" => Len(out) <= MAX_PAGES_PER_SITE

\* C2: the number of distinct URLs crawl_site issues a fetch for, successful or
\* failed, the start page included, never exceeds MAX_PAGES_PER_SITE.
C2_FetchesAtMostMaxPages == Cardinality(FetchedUrls) <= MAX_PAGES_PER_SITE

\* C3: a failed fetch of any page, the start URL included, never aborts the crawl:
\* when crawl_site returns without having reached the page cap, every contact-path
\* probe and every discovered link has been attempted.
C3_FailedFetchNeverAborts ==
    (cpc = "done" /\ fetched < MAX_PAGES_PER_SITE) =>
        /\ \A i \in 1..Len(ContactPaths) : urljoin(root, ContactPaths[i]) \in FetchedUrls
        /\ \A i \in 1..Len(more) : more[i] \in FetchedUrls

C19_NoUrlFetchedTwice ==
    \A i, j \in Fetches : clog[i].url = clog[j].url => i = j

\* C20: between any two consecutive fetches of crawl_site a sleep of
\* FETCH_DELAY_MS lies, whether the earlier fetch succeeded or failed, the start
\* page's fetch included.
C20_DelayBetweenFetches ==
    \A i, j \in Fetches :
        (i < j /\ \A k \in (i + 1)..(j - 1) : k \notin Fetches) =>
            \E k \in (i + 1)..(j - 1) : clog[k].op = "sleep" /\ clog[k].ms >= FETCH_DELAY_MS

\* The host of u: its netloc without the port, in lower case.
UrlHost(u) == Lower(SplitFirst(urlparse(u).netloc, ":"))

\* The host of u is the start URL's host or a subdomain of it.
OnStartSite(u) ==
    \E h \in {UrlHost(u)}, s \in {UrlHost(start_url)} : h = s \/ EndsWith(h, "." \o s)

\* C21: every URL crawl_site fetches is on the start URL's host or on a subdomain
\* of it.
C21_FetchesStayOnSite == \A i \in Fetches : OnStartSite(clog[i].url)

\* ------------------------------------------------------------------------
\* search.py
\* ------------------------------------------------------------------------
\* config.BAD_HOSTS
BAD_HOSTS ==
    {"facebook.com", "m.facebook.com", "instagram.com", "twitter.com", "x.com",
     "linkedin.com", "youtube.com", "yelp.com", "wikipedia.org", "pinterest.com"}

MAX_GOOGLE_CANDIDATES == 6

Max(a, b) == IF a >= b THEN a ELSE b
Min(a, b) == IF a <= b THEN a ELSE b

\* _host(url)
_host(url) == Lower(urlparse(url).netloc)

\* _is_bad(url)
_is_bad(url) == LET h == _host(url) IN \E bad \in BAD_HOSTS : EndsWith(h, bad)

\* _google_search, line 53: delay, in milliseconds
delay == Max(100, GOOGLE_CSE_QPS_DELAY_MS)

\* _google_search, line 54
tries == Max(1, GOOGLE_CSE_MAX_RETRIES)


\* The backoff without its doubling: the same wait after every attempt.
BackoffNoDoubling(k) == delay

\* _google_search, lines 65 and 71: the argument of time.sleep, in milliseconds
Backoff(k) == delay * (2 ^ k)

\* _google_search, line 64
RETRY_STATUSES == {429, 500, 502, 503, 504}

\* requests' Response.raise_for_status raises for a 4xx or 5xx status.
RaisesForStatus(status) == status >= 400 /\ status < 600

RECURSIVE LStrip(_, _)
LStrip(s, c) == IF Len(s) > 0 /\ Ch(s, 1) = c THEN LStrip(SubSeq(s, 2, Len(s)), c) ELSE s

\* _prefer_domain(urls, domain_hint) for a non-empty list
_prefer_domain(urls, hint) ==
    IF hint = "" THEN urls[1]
    ELSE Only({IF hits # {}
               THEN urls[CHOOSE i \in hits : \A j \in hits : i <= j]
               ELSE urls[1] :
               hits \in {{i \in 1..Len(urls) :
                            EndsWith(_host(urls[i]), Strip(LStrip(Lower(hint), "@")))}}})

\* find_official_site, lines 109-121: the queries
FindQueries(company_clean, hint) ==
    (IF hint # ""
     THEN LET dom == Lower(Strip(hint))
          IN  << company_clean \o " site:" \o dom,
                 company_clean \o " official site site:" \o dom >>
     ELSE <<>>)
    \o << company_clean \o " official site",
          company_clean \o " website",
          company_clean >>

\* google_contact_hunt, lines 157-183: the queries
HuntQueries(comp, loc, domain_for_site) ==
    (IF domain_for_site # ""
     THEN LET base == "site:" \o Lower(Strip(domain_for_site))
          IN  << base \o " contact", base \o " contact us", base \o " kontakt",
                 base \o " impressum", base \o " privacy", base \o " support" >>
     ELSE <<>>)
    \o << comp \o " contact", comp \o " contact us", comp \o " email", comp \o " privacy" >>
    \o (IF loc # ""
        THEN << comp \o " " \o loc \o " contact", comp \o " " \o loc \o " email" >>
        ELSE <<>>)

\* find_official_site, lines 127-133: the items of one query added to candidates
RECURSIVE FindCollect(_, _, _)
FindCollect(cands, items, i) ==
    IF i > Len(items) THEN cands
    ELSE LET url == Strip(items[i])
         IN  FindCollect(IF url = "" \/ _is_bad(url) \/ url \in SeqToSet(cands)
                         THEN cands ELSE Append(cands, url),
                         items, i + 1)

HUNT_PATH_TOKENS == {"contact", "kontakt", "impressum", "privacy"}

\* google_contact_hunt, line 201: the condition on a result that is not blocked
HuntAccepts(url, domain_for_site) ==
    \/ \E tok \in HUNT_PATH_TOKENS : Contains(Lower(urlparse(url).path), tok)
    \/ (domain_for_site # "" /\ EndsWith(_host(url), Lower(domain_for_site)))

\* A variant of HuntCollect that puts a new URL in front of the list.
RECURSIVE HuntCollectPrepend(_, _, _, _, _)
HuntCollectPrepend(res, items, i, domain_for_site, lim) ==
    IF i > Len(items) \/ Len(res) >= lim THEN res
    ELSE LET url == Strip(items[i])
         IN  HuntCollectPrepend(IF url = "" \/ _is_bad(url) \/ ~HuntAccepts(url, domain_for_site)
                                   \/ url \in SeqToSet(res)
                                THEN res ELSE <<url>> \o res,
                                items, i + 1, domain_for_site, lim)

\* google_contact_hunt, lines 195-206: the items of one query added to results
RECURSIVE HuntCollect(_, _, _, _, _)
HuntCollect(res, items, i, domain_for_site, lim) ==
    IF i > Len(items) \/ Len(res) >= lim THEN res
    ELSE LET url == Strip(items[i])
         IN  HuntCollect(IF url = "" \/ _is_bad(url) \/ ~HuntAccepts(url, domain_for_site)
                            \/ url \in SeqToSet(res)
                         THEN res ELSE Append(res, url),
                         items, i + 1, domain_for_site, lim)

\* The "link" fields of the items a 200 response may carry, in order.
ItemLists ==
    { <<>>,
      << "https://facebook.com/acme", "https://acme.com/contact" >>,
      << "https://facebook.com:443/acme/contact", "" >>,
      << "https://notfacebook.com/privacy", " https://acme.com/contact ", "https://www.acme.com/about" >>,
      << "https://acme.com/contact/a", "https://acme.com/contact/b", "https://acme.com/contact/a",
         "https://acme.com/contact/c", "https://acme.com/contact/d" >>,
      << "https://acme.com/contact/e", "https://acme.com/contact/d", "https://acme.com/contact/f" >> }

\* What one request to the provider may end in: a transport exception, or a
\* response with a status (and, for 200, items).
Responses ==
    {[exc |-> TRUE, status |-> 0, items |-> <<>>]}
    \cup {[exc |-> FALSE, status |-> st, items |-> <<>>] : st \in {204, 400, 429}}
    \cup {[exc |-> FALSE, status |-> 200, items |-> l] : l \in ItemLists}

ReqEv(k, r) ==
    [op |-> "request", attempt |-> k, status |-> r.status, exc |-> r.exc, ms |-> 0,
     items |-> r.items]
BackoffEv(k, r) ==
    [op |-> "sleep", attempt |-> k, status |-> r.status, exc |-> r.exc, ms |-> Backoff(k),
     items |-> <<>>]

InitSearch ==
    /\ MAX_PAGES_PER_SITE = 1
    /\ GOOGLE_CSE_MAX_RETRIES \in {1, MaxRetriesCfg}
    /\ GOOGLE_CSE_QPS_DELAY_MS = 800
    /\ cse_configured \in BOOLEAN
    /\ IdleCrawl
    /\ IdleRun
    /\ IdleExtract
    /\ spc = "entry"
    /\ \/ /\ caller = "find_official_site"
          /\ company \in {"", "Acme "}
          /\ domain_hint \in {"", "acme.com"}
          /\ location = ""
          /\ limit = 0
       \/ /\ caller = "google_contact_hunt"
          /\ company = "Acme "
          /\ \E a \in {<<"acme.com", "">>, <<"", " Ely">>} :
                domain_hint = a[1] /\ location = a[2]
          /\ limit \in {0, MAX_GOOGLE_CANDIDATES + 1} \cup 1..MaxLimit
    /\ limit_arg = limit
    /\ queries = <<>>
    /\ qidx = 1
    /\ attempt = 0
    /\ last_exc = FALSE
    /\ results = <<>>
    /\ ret = <<>>
    /\ slog = <<>>
    /\ requested = FALSE

\* One direct call _google_search(query).
InitGoogleSearch ==
    /\ MAX_PAGES_PER_SITE = 1
    /\ GOOGLE_CSE_MAX_RETRIES \in 0..MaxRetriesCfg
    /\ GOOGLE_CSE_QPS_DELAY_MS \in {50, 800}
    /\ cse_configured \in BOOLEAN
    /\ IdleCrawl
    /\ IdleRun
    /\ IdleExtract
    /\ spc = "query"
    /\ caller = "_google_search"
    /\ company = ""
    /\ domain_hint = ""
    /\ location = ""
    /\ limit = 0
    /\ limit_arg = 0
    /\ queries \in {<<"Acme contact">>, <<"site:acme.com contact">>}
    /\ qidx = 1
    /\ attempt = 0
    /\ last_exc = FALSE
    /\ results = <<>>
    /\ ret = <<>>
    /\ slog = <<>>
    /\ requested = FALSE

\* find_official_site, lines 104-124, and google_contact_hunt, lines 153-186: the
\* code before the loop over the queries.
search_enter ==
    /\ spc = "entry"
    /\ IF caller = "find_official_site"
       THEN IF Strip(company) = ""
            THEN spc' = "done" /\ UNCHANGED <<queries, limit>>
            ELSE /\ queries' = FindQueries(Strip(company), domain_hint)
                 /\ spc' = "query"
                 /\ UNCHANGED limit
       ELSE /\ queries' = HuntQueries(Strip(company), Strip(location), domain_hint)
            /\ limit' = Max(1, Min(limit, MAX_GOOGLE_CANDIDATES))
            /\ spc' = "query"
    /\ UNCHANGED <<notSearch, caller, limit_arg, company, domain_hint, location, qidx, attempt,
                   last_exc, results, ret, slog, requested>>

\* The caller's code after _google_search has returned items (or, in
\* google_contact_hunt, after its exception was swallowed): the rest of the loop
\* body (the sleep of line 210, which changes no state, left out), and the return
\* when the loop ends.  A direct call of _google_search returns the items.
Resume(items) ==
    IF caller = "_google_search"
    THEN spc' = "done" /\ ret' = items /\ UNCHANGED <<results, qidx>>
    ELSE IF caller = "find_official_site"
    THEN \E cands \in {FindCollect(results, items, 1)} :
             /\ results' = cands
             /\ IF cands # <<>>
                THEN spc' = "done" /\ ret' = <<_prefer_domain(cands, domain_hint)>> /\ qidx' = qidx
                ELSE IF qidx = Len(queries)
                THEN spc' = "done" /\ ret' = <<>> /\ qidx' = qidx
                ELSE spc' = "query" /\ ret' = ret /\ qidx' = qidx + 1
    ELSE \E res \in {HuntCollect(results, items, 1, domain_hint, limit)} :
             /\ results' = res
             /\ IF Len(res) >= limit \/ qidx = Len(queries)
                THEN spc' = "done" /\ ret' = res /\ qidx' = qidx
                ELSE spc' = "query" /\ ret' = ret /\ qidx' = qidx + 1

\* _google_search is called with queries[qidx], lines 42-56: without a key it
\* returns [] at once.
gs_call ==
    /\ spc = "query"
    /\ IF ~cse_configured
       THEN Resume(<<>>) /\ UNCHANGED <<attempt, last_exc>>
       ELSE /\ spc' = "attempt"
            /\ attempt' = 0
            /\ last_exc' = FALSE
            /\ UNCHANGED <<results, ret, qidx>>
    /\ slog' = <<>>
    /\ UNCHANGED <<notSearch, caller, limit_arg, company, domain_hint, location, limit, queries, requested>>

\* _google_search, lines 57-71: one iteration of the loop over the attempts.
gs_attempt ==
    /\ spc = "attempt"
    /\ attempt < tries
    /\ requested' = TRUE
    /\ \E r \in Responses :
        LET sent == Append(slog, ReqEv(attempt, r))
        IN  IF r.exc
            THEN /\ last_exc' = TRUE
                 /\ slog' = Append(sent, BackoffEv(attempt, r))
                 /\ attempt' = attempt + 1
                 /\ UNCHANGED <<spc, results, ret, qidx>>
            ELSE IF r.status = 200
            THEN Resume(r.items) /\ slog' = sent /\ UNCHANGED <<attempt, last_exc>>
            ELSE IF r.status \in RETRY_STATUSES
            THEN /\ slog' = Append(sent, BackoffEv(attempt, r))
                 /\ attempt' = attempt + 1
                 /\ UNCHANGED <<spc, last_exc, results, ret, qidx>>
            ELSE IF RaisesForStatus(r.status)
            THEN /\ last_exc' = TRUE
                 /\ slog' = Append(sent, BackoffEv(attempt, r))
                 /\ attempt' = attempt + 1
                 /\ UNCHANGED <<spc, results, ret, qidx>>
            ELSE /\ slog' = sent
                 /\ attempt' = attempt + 1
                 /\ UNCHANGED <<spc, last_exc, results, ret, qidx>>
    /\ UNCHANGED <<notSearch, caller, limit_arg, company, domain_hint, location, limit, queries>>

\* _google_search, lines 73-75: the attempts are used up.  find_official_site
\* lets the exception through; google_contact_hunt, lines 191-193, takes [].
gs_exhausted ==
    /\ spc = "attempt"
    /\ attempt >= tries
    /\ IF last_exc /\ caller # "google_contact_hunt"
       THEN spc' = "raised" /\ UNCHANGED <<results, ret, qidx>>
       ELSE Resume(<<>>)
    /\ UNCHANGED <<notSearch, caller, limit_arg, company, domain_hint, location, limit, queries,
                   attempt, last_exc, slog, requested>>

NextSearch ==
    \/ search_enter
    \/ gs_call
    \/ gs_attempt
    \/ gs_exhausted

\* The calls block with timeouts and the loops are sequential: a step that can
\* be taken is taken.
SpecSearch == InitSearch /\ [][NextSearch]_vars /\ WF_vars(NextSearch)

NextGoogleSearch ==
    \/ gs_call
    \/ gs_attempt
    \/ gs_exhausted

SpecGoogleSearch == InitGoogleSearch /\ [][NextGoogleSearch]_vars /\ WF_vars(NextGoogleSearch)

\* ------------------------------------------------------------------------
\* Claims about search.py (checked under SpecSearch and SpecGoogleSearch)
\* ------------------------------------------------------------------------
\* The host a URL names: its netloc without user-info and port, in lower case.
HostOf(url) == Lower(SplitFirst(SplitLast(urlparse(url).netloc, "@"), ":"))

\* h is a block-list host or a subdomain of one.
IsBlockedHost(h) == \E bad \in BAD_HOSTS : h = bad \/ EndsWith(h, "." \o bad)

\* C4: the URL find_official_site returns, and every URL in the list
\* google_contact_hunt returns, has a host that is neither a block-list host nor a
\* subdomain of one.
C4_NoBlockedHostReturned ==
    spc = "done" => \A i \in 1..Len(ret) : ~IsBlockedHost(HostOf(ret[i]))

\* The requests and the waits of the current call of _google_search.
Requests == {i \in 1..Len(slog) : slog[i].op = "request"}
Sleeps == {i \in 1..Len(slog) : slog[i].op = "sleep"}

\* Request i was answered with an error status (4xx, 5xx) other than 429, 500,
\* 502, 503, 504.
NonRetryableAt(i) ==
    /\ i \in Requests
    /\ ~slog[i].exc
    /\ slog[i].status >= 400
    /\ slog[i].status \notin RETRY_STATUSES

\* C7: when the provider answers with a non-retryable error status, the error is
\* surfaced at once: that request is the last thing the call does (no further
\* request, no backoff sleep) and the call raises.
C7_NonRetryableSurfacedAtOnce ==
    \A i \in 1..Len(slog) : NonRetryableAt(i) => (i = Len(slog) /\ spc = "raised")

\* Request i ended in a rate-limited or server-error response.
RateLimitedAt(i) == i \in Requests /\ ~slog[i].exc /\ slog[i].status \in RETRY_STATUSES

\* The waits of the call, in order.
RECURSIVE WaitsFrom(_)
WaitsFrom(i) ==
    IF i > Len(slog) THEN <<>>
    ELSE (IF slog[i].op = "sleep" THEN <<slog[i].ms>> ELSE <<>>) \o WaitsFrom(i + 1)

\* C8 as stated: at most GOOGLE_CSE_MAX_RETRIES requests per call; the wait after
\* the first rate-limited or server-error response is GOOGLE_CSE_QPS_DELAY_MS, and
\* every further wait is twice the wait before it.
C8_BackoffAsStated ==
    /\ Cardinality(Requests) <= GOOGLE_CSE_MAX_RETRIES
    /\ \A i \in Requests :
         (RateLimitedAt(i) /\ \A j \in 1..(i - 1) : ~RateLimitedAt(j)) =>
            (i + 1 \in Sleeps => slog[i + 1].ms = GOOGLE_CSE_QPS_DELAY_MS)
    /\ LET w == WaitsFrom(1) IN \A k \in 1..(Len(w) - 1) : w[k + 1] = 2 * w[k]

\* The call has returned or raised.
Terminated == spc \in {"done", "raised"}

\* A failed attempt: a transport exception, or an error status (4xx, 5xx).
FailedAt(i) == i \in Requests /\ (slog[i].exc \/ slog[i].status >= 400)

\* C8, amended: a call sends at most max(1, GOOGLE_CSE_MAX_RETRIES) requests, one
\* per attempt; a wait follows exactly the failed attempts, and the wait after
\* attempt k (counted from 0) is max(100, GOOGLE_CSE_QPS_DELAY_MS) * 2^k ms.
C8_BackoffPerAttempt ==
    /\ Cardinality(Requests) <= Max(1, GOOGLE_CSE_MAX_RETRIES)
    /\ \A i \in Requests :
         /\ slog[i].attempt = Cardinality({j \in Requests : j < i})
         /\ FailedAt(i) <=> (i + 1 \in Sleeps)
    /\ \A i \in Sleeps :
         /\ i - 1 \in Requests
         /\ slog[i].ms = Max(100, GOOGLE_CSE_QPS_DELAY_MS) * (2 ^ slog[i - 1].attempt)

\* C8, amended, with termination: every call of _google_search returns or raises.
C8_BoundedBackoffAndTermination == [](C8_BackoffPerAttempt) /\ <>Terminated

\* Two rate-limited attempts in a row: the second wait is twice the first.
C8_Witness ==
    /\ Len(slog) >= 4
    /\ RateLimitedAt(1) /\ RateLimitedAt(3)
    /\ slog[4].op = "sleep" /\ slog[4].ms = 2 * slog[2].ms

\* C9: when every attempt of a query ends in a rate-limit or transient failure
\* (429/5xx response, transport exception), the caller does not raise: a raise is
\* only ever due to an attempt that ended otherwise.
C9_TransientFailuresNeverRaise ==
    spc = "raised" =>
        \E i \in Requests : ~slog[i].exc /\ slog[i].status \notin RETRY_STATUSES

\* A plausible bare domain: it contains a dot, no space and no scheme separator.
PlausibleBareDomain(h) == Contains(h, ".") /\ ~Contains(h, " ") /\ ~Contains(h, "://")

\* C10: find_official_site, given a plausible bare domain as hint, sends no request
\* to the search provider and returns https://<hint>.
C10_HintShortCircuits ==
    (caller = "find_official_site" /\ PlausibleBareDomain(domain_hint)) =>
        /\ ~requested
        /\ spc = "done" => ret = <<"https://" \o domain_hint>>

\* Properties of google_contact_hunt

NoDuplicates(s) == \A i, j \in 1..Len(s) : s[i] = s[j] => i = j

\* The index of the first item of a response whose link, stripped, is u.
FirstProduced(items, u) ==
    CHOOSE i \in 1..Len(items) :
        /\ Strip(items[i]) = u
        /\ \A j \in 1..(i - 1) : Strip(items[j]) # u

\* A step that changes results keeps what was there and adds, behind it, links
\* of the response just received, in the order the response first gives them.
AppendsInDiscoveryOrder ==
    (caller = "google_contact_hunt" /\ results' # results) =>
        /\ slog' # <<>>
        /\ Len(results') > Len(results)
        /\ SubSeq(results', 1, Len(results)) = results
        /\ \E its \in {slog'[Len(slog')].items} :
              /\ \A a \in (Len(results) + 1)..Len(results') :
                    \E i \in 1..Len(its) : Strip(its[i]) = results'[a]
              /\ \A a, b \in (Len(results) + 1)..Len(results') :
                    a < b => FirstProduced(its, results'[a]) < FirstProduced(its, results'[b])

HuntReturned == caller = "google_contact_hunt" /\ spc = "done"

\* C12, as stated: the list google_contact_hunt returns holds no URL twice, has
\* at most min(limit, MAX_GOOGLE_CANDIDATES) URLs, and lists them in the order
\* they were produced.
C12_AtMostMinLimitCeiling ==
    /\ [](HuntReturned =>
             /\ ret = results
             /\ NoDuplicates(ret)
             /\ Len(ret) <= Min(limit_arg, MAX_GOOGLE_CANDIDATES))
    /\ [][AppendsInDiscoveryOrder]_vars

\* C12, amended: the list google_contact_hunt returns holds no URL twice, has at
\* most max(1, min(limit, MAX_GOOGLE_CANDIDATES)) URLs, and lists them in the
\* order they were produced.
C12_DedupedCappedInOrder ==
    /\ [](HuntReturned =>
             /\ ret = results
             /\ NoDuplicates(ret)
             /\ Len(ret) <= Max(1, Min(limit_arg, MAX_GOOGLE_CANDIDATES)))
    /\ [][AppendsInDiscoveryOrder]_vars

\* google_contact_hunt has returned MAX_GOOGLE_CANDIDATES links, asked for more,
\* after a response that repeated a link.
C12_Witness ==
    /\ HuntReturned
    /\ limit_arg > MAX_GOOGLE_CANDIDATES
    /\ Len(ret) = MAX_GOOGLE_CANDIDATES
    /\ slog # <<>>
    /\ ~NoDuplicates([i \in 1..Len(slog[Len(slog)].items) |-> Strip(slog[Len(slog)].items[i])])

\* The links of the response that the caller of _google_search has just taken in:
\* the last entry of the call's log is a request answered 200.
TakenIn ==
    IF /\ slog # <<>>
       /\ slog[Len(slog)].op = "request"
       /\ ~slog[Len(slog)].exc
       /\ slog[Len(slog)].status = 200
    THEN {Strip(slog[Len(slog)].items[k]) : k \in 1..Len(slog[Len(slog)].items)} \ {""}
    ELSE {}

\* C22: a result whose host is neither a block-list host nor a subdomain of one is
\* not discarded by the block-list filter: find_official_site keeps it as a
\* candidate, and google_contact_hunt, short of its limit, keeps it when it passes
\* the contact-page condition.
C22_OnlyBlockedHostsDiscarded ==
    \A url \in TakenIn :
        ~IsBlockedHost(HostOf(url)) =>
            /\ caller = "find_official_site" => url \in SeqToSet(results)
            /\ (/\ caller = "google_contact_hunt"
                /\ Len(results) < limit
                /\ HuntAccepts(url, domain_hint)) => url \in SeqToSet(results)

\* ------------------------------------------------------------------------
\* main.py: helpers
\* ------------------------------------------------------------------------
\* main.BAD_HOSTS
MAIN_BAD_HOSTS ==
    {"facebook.com", "linkedin.com", "twitter.com", "x.com", "instagram.com", "youtube.com",
     "wikipedia.org", "reddit.com", "medium.com", "blogspot.com", "wordpress.com",
     "typepad.com", "pinterest.com", "foursquare.com", "yelp.com", "fda.gov", "amazon.com",
     "opentable.com"}

DEFAULT_LOCATION == "Ely"

\* tldextract.extract(x): the host of x (scheme, user-info, port and path dropped,
\* lower case) split into suffix (the longest public suffix it ends in) and domain
\* (the label before the suffix).
TldHost(x) ==
    LET noScheme == IF Contains(x, "://") THEN SubSeq(x, Find(x, "://") + 3, Len(x)) ELSE x
    IN  Lower(SplitFirst(SplitLast(SplitFirst(noScheme, "/"), "@"), ":"))

TldSuffix(h) ==
    Only({IF hits = {} THEN "" ELSE CHOOSE sf \in hits : \A t \in hits : Len(t) <= Len(sf) :
          hits \in {{sf \in PUBLIC_SUFFIXES : h = sf \/ EndsWith(h, "." \o sf)}}})

\* The label of h before its suffix sf.
TldDomain(h, sf) ==
    IF sf = "" THEN SplitLast(h, ".")
    ELSE IF h = sf THEN ""
    ELSE SplitLast(SubSeq(h, 1, Len(h) - Len(sf) - 1), ".")

tldextract(x) ==
    Only({[domain |-> TldDomain(h[1], h[2]), suffix |-> h[2]] :
          h \in {Only({<<host, TldSuffix(host)>> : host \in {TldHost(x)}})}})

\* registrable_domain(url_or_host)
registrable_domain(url_or_host) ==
    IF url_or_host = "" THEN ""
    ELSE Only({Only({IF ext.domain = "" THEN Lower(host)
                     ELSE IF ext.suffix # "" THEN ext.domain \o "." \o ext.suffix
                     ELSE ext.domain : ext \in {tldextract(host)}}) :
               host \in {IF Contains(url_or_host, "://")
                         THEN urlparse(url_or_host).netloc ELSE url_or_host}})

\* same_reg_domain(a, b)
same_reg_domain(a, b) ==
    \E ra \in {registrable_domain(a)}, rb \in {registrable_domain(b)} :
        ra # "" /\ rb # "" /\ ra = rb

CANDIDATE_LINK_TOKENS ==
    {"/contact", "contact-", "contactus", "contact-us", "get-in-touch", "getintouch",
     "/about", "/impressum", "/kontakt", "/find-us", "/where-to-find-us", "/support", "/help"}

\* candidate_links, lines 128-144: the filter and the dedupe for one link u
CandidateOne(base_url, u, uniq) ==
    IF /\ same_reg_domain(u, registrable_domain(base_url))
       /\ \E x \in CANDIDATE_LINK_TOKENS : Contains(Lower(u), x)
       /\ u \notin SeqToSet(uniq)
    THEN Append(uniq, u)
    ELSE uniq

\* candidate_links, lines 124-144: the links of the anchors, from anchor i on
RECURSIVE CandidateFrom(_, _, _, _)
CandidateFrom(base_url, hrefs, i, uniq) ==
    IF i > Len(hrefs) THEN uniq
    ELSE CandidateFrom(base_url, hrefs, i + 1,
                       CandidateOne(base_url, urljoin(base_url, hrefs[i]), uniq))

Prefix(q, n) == SubSeq(q, 1, Min(n, Len(q)))

\* candidate_links(base_url, html), with the cap in force
candidate_links(base_url, hrefs, cap) == Prefix(CandidateFrom(base_url, hrefs, 1, <<>>), cap)

\* A page, as main.py reads it: the hrefs of its anchors, the targets of its
\* mailto: links (MAILTO_RE), the addresses in its visible text (EMAIL_RE), and
\* whether one of its forms matches the contact-form heuristic.
Page(hrefs, mailtos, text_emails, form) ==
    [hrefs |-> hrefs, mailtos |-> mailtos, text_emails |-> text_emails, form |-> form]

FORM_URL_TOKENS == {"contact", "get-in-touch", "kontakt", "impressum"}

\* extract_emails_and_forms(url, html)
extract_emails_and_forms(url, page) ==
    [emails   |-> ({Strip(SplitFirst(m, "?")) : m \in SeqToSet(page.mailtos)} \ {""})
                  \cup {Strip(m) : m \in SeqToSet(page.text_emails)},
     has_form |-> page.form \/ \E t \in FORM_URL_TOKENS : Contains(Lower(url), t)]

\* The n-th answer of the search provider in a run of requests; past the end of
\* the feed it answers 200 with no items.
Resp(feed, n) ==
    IF n <= Len(feed) THEN feed[n] ELSE [exc |-> FALSE, status |-> 200, items |-> <<>>]

\* find_official_site (main.py), lines 188-194: the queries
MainQueries(comp, hint) ==
    (IF hint # "" THEN << comp \o " " \o hint \o " official site" >> ELSE <<>>)
    \o << comp \o " official site",
          comp \o " " \o DEFAULT_LOCATION \o " official site",
          comp \o " website" >>

\* company.lower().split()[0], for a company that is not blank
FirstToken(comp) == SplitFirst(Strip(Lower(comp)), " ")

\* find_official_site (main.py), lines 214-220: a link on host is returned
MainAccepts(comp, hint, host) ==
    /\ host \notin MAIN_BAD_HOSTS
    /\ \/ Contains(host, FirstToken(comp))
       \/ (hint # "" /\ Contains(host, SplitFirst(hint, ".")))

\* find_official_site (main.py), lines 210-220: the items of one response, from
\* item i on.  hit is the link returned, "" when none is.
RECURSIVE MainScan(_, _, _, _, _)
MainScan(comp, hint, items, i, seen) ==
    IF i > Len(items) THEN [hit |-> "", seen |-> seen]
    ELSE IF items[i] = "" \/ items[i] \in seen
    THEN MainScan(comp, hint, items, i + 1, seen)
    ELSE IF MainAccepts(comp, hint, registrable_domain(items[i]))
    THEN [hit |-> items[i], seen |-> seen \cup {items[i]}]
    ELSE MainScan(comp, hint, items, i + 1, seen \cup {items[i]})

\* The first link of items that is non-empty and not on a blocked host, "" if none.
FirstUnblocked(items) ==
    Only({IF ok = {} THEN "" ELSE items[CHOOSE i \in ok : \A j \in ok : i <= j] :
          ok \in {{i \in 1..Len(items) :
                     /\ items[i] # ""
                     /\ registrable_domain(items[i]) \notin MAIN_BAD_HOSTS}}})

\* Request number n of a call: query q, sent from the fallback loop or from the
\* main loop, and what the provider answered.
Sent(cx, q, fb, n) == [q |-> q, fallback |-> fb, resp |-> Resp(cx.feed, n)]

\* find_official_site (main.py), lines 227-243: the fallback loop, from query q on.
\* reqs lists the requests sent so far, in order.
RECURSIVE MainFallback(_, _, _)
MainFallback(cx, q, reqs) ==
    IF q > Len(cx.queries) THEN [ret |-> <<>>, reqs |-> reqs]
    ELSE Only({IF hit # ""
               THEN [ret |-> <<hit>>, reqs |-> Append(reqs, Sent(cx, q, TRUE, Len(reqs) + 1))]
               ELSE MainFallback(cx, q + 1, Append(reqs, Sent(cx, q, TRUE, Len(reqs) + 1))) :
               hit \in {IF Resp(cx.feed, Len(reqs) + 1).exc THEN ""
                        ELSE FirstUnblocked(Resp(cx.feed, Len(reqs) + 1).items)}})

\* find_official_site (main.py), lines 196-225: the loop over the queries and the
\* attempts, from attempt k of query q on.  An exception, a 429 and an error
\* status all lead to the next attempt; so does any other status than 200, whose
\* body is no JSON document.
RECURSIVE MainLoop(_, _, _, _, _)
MainLoop(cx, q, k, seen, reqs) ==
    IF q > Len(cx.queries) THEN MainFallback(cx, 1, reqs)
    ELSE IF k >= cx.retries THEN MainLoop(cx, q + 1, 0, seen, reqs)
    ELSE IF Resp(cx.feed, Len(reqs) + 1).exc \/ Resp(cx.feed, Len(reqs) + 1).status # 200
    THEN MainLoop(cx, q, k + 1, seen, Append(reqs, Sent(cx, q, FALSE, Len(reqs) + 1)))
    ELSE Only({IF sc.hit # ""
               THEN [ret |-> <<sc.hit>>, reqs |-> Append(reqs, Sent(cx, q, FALSE, Len(reqs) + 1))]
               ELSE MainLoop(cx, q + 1, 0, sc.seen,
                             Append(reqs, Sent(cx, q, FALSE, Len(reqs) + 1))) :
               sc \in {MainScan(cx.company, cx.hint, Resp(cx.feed, Len(reqs) + 1).items,
                                1, seen)}})

\* find_official_site(company, domain_hint) of main.py, against a provider that
\* answers its requests with feed.  ret is <<url>>, or <<>> for None.
main_find_official_site(comp, hint, configured, retries, feed) ==
    IF hint # "" /\ Contains(hint, ".") /\ ~Contains(hint, "/")
    THEN [ret |-> << "https://" \o Lower(Strip(hint)) >>, reqs |-> <<>>]
    ELSE IF ~configured THEN [ret |-> <<>>, reqs |-> <<>>]
    ELSE MainLoop([company |-> comp, hint |-> hint, feed |-> feed,
                   queries |-> MainQueries(comp, hint), retries |-> retries],
                  1, 0, {}, <<>>)

\* google_contact_hunt (main.py), lines 275-284: the items of one response
RECURSIVE MainHuntScan(_, _, _, _, _)
MainHuntScan(dom, items, i, seen, cands) ==
    IF i > Len(items) THEN [seen |-> seen, cands |-> cands]
    ELSE IF items[i] = "" \/ items[i] \in seen
    THEN MainHuntScan(dom, items, i + 1, seen, cands)
    ELSE MainHuntScan(dom, items, i + 1, seen \cup {items[i]},
                      IF ~same_reg_domain(items[i], dom)
                         \/ registrable_domain(items[i]) \in MAIN_BAD_HOSTS
                      THEN cands ELSE Append(cands, items[i]))

\* google_contact_hunt (main.py), lines 256-288: the three queries, one request
\* each; a 429, an error status and an exception skip the query.
RECURSIVE MainHuntLoop(_, _, _, _, _)
MainHuntLoop(dom, feed, q, seen, cands) ==
    IF q > 3 THEN cands
    ELSE IF Resp(feed, q).exc \/ Resp(feed, q).status # 200
    THEN MainHuntLoop(dom, feed, q + 1, seen, cands)
    ELSE Only({MainHuntLoop(dom, feed, q + 1, sc.seen, sc.cands) :
               sc \in {MainHuntScan(dom, Resp(feed, q).items, 1, seen, cands)}})

\* google_contact_hunt (main.py), lines 255-290: the candidates that are fetched
main_hunt_candidates(site_url, feed) ==
    Prefix(MainHuntLoop(registrable_domain(site_url), feed, 1, {}, <<>>), 10)

\* ------------------------------------------------------------------------
\* main.run
\* ------------------------------------------------------------------------
MaxSheetRows == 2

\* The worksheet has the standard header row, so every idx_* of run is set.
SheetRow(comp, dom, site, email, status) ==
    [Company |-> comp, Domain |-> dom, Website |-> site, ContactEmail |-> email,
     ContactFormURL |-> "", SourceURL |-> "", Status |-> status, LastChecked |-> "",
     Notes |-> ""]

\* find_first_unprocessed(headers, rows)
find_first_unprocessed(rows) ==
    LET un == {i \in 1..Len(rows) : /\ rows[i].ContactEmail = ""
                                    /\ rows[i].ContactFormURL = ""
                                    /\ rows[i].Status # "done"}
    IN  IF un = {} THEN 2 ELSE (CHOOSE i \in un : \A j \in un : i <= j) + 1

\* fetch(url): what a call can return.  <<>> is None: an error status, a body
\* that is no HTML, or an exception; a URL the web does not serve gives only that.
fetch(url) == {<<>>} \cup (IF url \in DOMAIN web THEN {<< web[url] >>} ELSE {})

Cell(c, v) == [col |-> c, val |-> v]

\* ws.update_cell(r, col, val) for each cell of W, in order
RECURSIVE ApplyWrites(_, _, _)
ApplyWrites(sh, r, W) ==
    IF W = <<>> THEN sh
    ELSE ApplyWrites([sh EXCEPT ![r - 1][Head(W).col] = Head(W).val], r, Tail(W))

Logged(r, W) == [i \in 1..Len(W) |-> [row |-> r, col |-> W[i].col, val |-> W[i].val]]

\* The calls of ws.update_cell for W: either all return, or the one for cell
\* number k raises, the cells before it written, and the exception leaves run.
WriteCells(W, then) ==
    \E k \in 0..Len(W) :
        LET done == IF k = 0 THEN W ELSE SubSeq(W, 1, k - 1)
        IN  /\ sheet' = ApplyWrites(sheet, rownum, done)
            /\ wlog' = wlog \o Logged(rownum, done)
            /\ rpc' = IF k = 0 THEN then ELSE "aborted"

NOW == "2026-01-01 00:00:00 UTC"

\* The cells a run would write that fills in info@<domain> when it found nothing.
OutcomeGuessing(ems, srcs, best_email, best_form, guess, site) ==
    IF best_email # ""
    THEN << Cell("ContactEmail", best_email), Cell("Status", "email_found"),
            Cell("LastChecked", NOW), Cell("Notes", "Found") >>
    ELSE IF best_form # ""
    THEN << Cell("ContactFormURL", best_form), Cell("Status", "form_found"),
            Cell("LastChecked", NOW), Cell("Notes", "No email found; contact form available") >>
    ELSE << Cell("ContactEmail", "info@" \o registrable_domain(site)),
            Cell("Status", "email_found"), Cell("LastChecked", NOW), Cell("Notes", "Guessed") >>

\* run, lines 392-428: the outcome of a row and the cells it writes.  site is
\* website or domain_hint.
Outcome(ems, srcs, best_email, best_form, guess, site) ==
    LET status == IF best_email # "" THEN "email_found"
                  ELSE IF best_form # "" THEN "form_found"
                  ELSE "no_contact"
        notes  == IF best_email # ""
                  THEN "Found " \o ToString(Cardinality(ems)) \o " email(s)"
                  ELSE IF best_form # "" THEN "No email found; contact form available"
                  ELSE IF guess THEN "Would guess, but safe-mode skip"
                  ELSE "No email/form; guessing disabled"
        found  == IF best_email # ""
                  THEN << Cell("ContactEmail", best_email) >>
                       \o (IF \E p \in srcs : p[1] = best_email
                           THEN << Cell("SourceURL",
                                        (CHOOSE p \in srcs : p[1] = best_email)[2]) >>
                           ELSE <<>>)
                  ELSE IF best_form # "" THEN << Cell("ContactFormURL", best_form) >>
                  ELSE <<>>
    IN  found \o << Cell("Status", status), Cell("LastChecked", NOW), Cell("Notes", notes) >>

\* email_sources after "if e not in email_sources: email_sources[e] = url" for
\* each e of es
AddSources(srcs, es, url) ==
    srcs \cup {<<e, url>> : e \in {x \in es : ~\E p \in srcs : p[1] = x}}

FetchLog(url, phase) == [url |-> url, phase |-> phase]

\* Worksheets, webs and provider answers the run is checked against.
AllSheets ==
    << << SheetRow("Acme Ltd", "", "https://acme.com", "old@acme.com", "email_found") >>,
       << SheetRow("Acme Ltd", "", "https://acme.com", "", ""),
          SheetRow("Acme Ltd", "acme.com", "", "", "") >>,
       << SheetRow("", "", "", "", ""),
          SheetRow("Acme Ltd", "", "", "", "") >>,
       << SheetRow("Old Co", "", "https://old.com", "old@old.com", "done"),
          SheetRow("Acme Ltd", "", "https://acme.com", "", "") >>,
       << SheetRow("Acme Ltd", "", "https://acme.com", "", ""),
          SheetRow("", "", "", "", ""),
          SheetRow("Acme Ltd", "acme.com", "", "", "") >> >>

Sheets == {AllSheets[i] : i \in {j \in 1..Len(AllSheets) : Len(AllSheets[j]) <= MaxSheetRows}}

Webs ==
    { ("https://acme.com" :> Page(<< "/contact", "/pricing", "/about" >>, <<>>, <<>>, FALSE))
      @@ ("https://acme.com/contact" :>
              Page(<<>>, << "info@acme.com?subject=Hi" >>,
                   << "sales@acme.com", "jo@gmail.com" >>, TRUE)),
      ("https://acme.com" :> Page(<< "/about" >>, <<>>, <<>>, FALSE))
      @@ ("https://acme.com/about" :> Page(<<>>, <<>>, <<>>, FALSE))
      @@ ("https://acme.com/team" :> Page(<<>>, << "hr@acme.com" >>, << "pa@gmail.com" >>, FALSE))
      @@ ("https://acme.com/people" :> Page(<<>>, <<>>, <<>>, FALSE)) }

Ok200(items) == [exc |-> FALSE, status |-> 200, items |-> items]
Status(st) == [exc |-> FALSE, status |-> st, items |-> <<>>]
Raised == [exc |-> TRUE, status |-> 0, items |-> <<>>]

MainFeeds ==
    { <<>>,
      << Ok200(<< "https://facebook.com/acme", "https://acme.com" >>) >>,
      << Status(429), Ok200(<< "https://www.acme.com/" >>) >>,
      << Ok200(<< "https://other.org" >>), Raised, Status(400), Ok200(<< "https://other.org" >>) >> }

HuntFeeds ==
    { <<>>,
      << Ok200(<< "https://acme.com/team", "https://facebook.com/acme",
                  "https://acme.com/people" >>) >>,
      << Raised, Ok200(<< "https://acme.com/people" >>) >> }

InitRun ==
    /\ MAX_PAGES_PER_SITE \in 1..MaxPagesCfg
    /\ GOOGLE_CSE_MAX_RETRIES = 1
    /\ GOOGLE_CSE_QPS_DELAY_MS = 0
    /\ cse_configured \in BOOLEAN
    /\ IdleCrawl
    /\ IdleSearch
    /\ IdleExtract
    /\ ALLOW_GUESS \in BOOLEAN
    /\ PREFER_COMPANY_DOMAIN \in BOOLEAN
    /\ MAX_ROWS \in {1, 100}
    /\ rpc = "start"
    /\ sheet \in Sheets
    /\ web \in Webs
    /\ rownum = 0
    /\ end_row = 0
    /\ wlog = <<>>
    /\ started = {}
    /\ NoRow

runCfg == <<ALLOW_GUESS, PREFER_COMPANY_DOMAIN, MAX_ROWS, web>>
crawlLocals == <<home_html, cand, cidx, seen_pages>>
huntLocals == <<hcand, hidx>>
rowFound == <<emails, email_sources, forms, extracted>>

\* lines 307-326: the table is read and the loop's range is fixed
run_start ==
    /\ rpc = "start"
    /\ rownum' = find_first_unprocessed(sheet)
    /\ end_row' = Min(Len(sheet) + 1, rownum' - 1 + MAX_ROWS)
    /\ rpc' = IF rownum' <= end_row' THEN "row" ELSE "done"
    /\ UNCHANGED <<notRun, runCfg, sheet, row_vals, website, crawlLocals, huntLocals, rowFound,
                   wlog, flog, started, rreqs>>

\* Where the loop goes after the body: the next row, or out of the loop.
Continue == IF rownum + 1 <= end_row THEN "row" ELSE "done"

\* lines 328-352: the row is read afresh; a row without Company is skipped
run_read_row ==
    /\ rpc = "row"
    /\ \/ /\ rpc' = "aborted"      \* ws.row_values raises
          /\ UNCHANGED <<rownum, row_vals, website, rowFound, flog, started, rreqs>>
       \/ /\ row_vals' = sheet[rownum - 1]
          /\ IF row_vals'.Company = ""
             THEN /\ rpc' = Continue
                  /\ rownum' = IF rpc' = "row" THEN rownum + 1 ELSE rownum
                  /\ UNCHANGED <<website, rowFound, flog, started, rreqs>>
             ELSE /\ rpc' = IF row_vals'.Website = "" THEN "resolve" ELSE "crawl"
                  /\ website' = row_vals'.Website
                  /\ emails' = {} /\ email_sources' = {} /\ forms' = <<>>
                  /\ extracted' = {} /\ flog' = <<>> /\ rreqs' = <<>>
                  /\ started' = started \cup {rownum}
                  /\ UNCHANGED rownum
    /\ UNCHANGED <<notRun, runCfg, sheet, end_row, crawlLocals, huntLocals, wlog>>

\* lines 340-346: find_official_site, and the Website cell when it found a site
run_resolve ==
    /\ rpc = "resolve"
    /\ \E feed \in MainFeeds :
          \E res \in {main_find_official_site(row_vals.Company, row_vals.Domain,
                                              cse_configured, GOOGLE_CSE_MAX_RETRIES, feed)} :
              /\ rreqs' = res.reqs
              /\ IF res.ret # <<>>
                 THEN /\ website' = res.ret[1]
                      /\ WriteCells(<< Cell("Website", res.ret[1]) >>, "crawl")
                 ELSE /\ rpc' = "finish"
                      /\ UNCHANGED <<website, sheet, wlog>>
    /\ UNCHANGED <<notRun, runCfg, rownum, end_row, row_vals, crawlLocals, huntLocals, rowFound,
                   flog, started>>

\* lines 355-364: the homepage is fetched and the candidates are listed
run_fetch_home ==
    /\ rpc = "crawl"
    /\ \E h \in fetch(website) :
          /\ home_html' = h
          /\ cand' = IF h # <<>>
                     THEN << website >> \o candidate_links(website, h[1].hrefs, MAX_PAGES_PER_SITE)
                     ELSE << website >>
    /\ seen_pages' = {}
    /\ cidx' = 1
    /\ flog' = Append(flog, FetchLog(website, "crawl"))
    /\ rpc' = "pages"
    /\ UNCHANGED <<notRun, runCfg, sheet, rownum, end_row, row_vals, website, huntLocals,
                   rowFound, wlog, started, rreqs>>

\* lines 365-380: one pass of the loop over cand[:MAX_PAGES_PER_SITE]
run_crawl_page ==
    /\ rpc = "pages"
    /\ cidx <= Len(Prefix(cand, MAX_PAGES_PER_SITE))
    /\ LET url    == cand[cidx]
           reuse  == url = website /\ home_html # <<>>
       IN  IF url \in seen_pages
           THEN UNCHANGED <<seen_pages, rowFound, flog>>
           ELSE /\ seen_pages' = seen_pages \cup {url}
                /\ flog' = IF reuse THEN flog ELSE Append(flog, FetchLog(url, "crawl"))
                /\ \E h \in (IF reuse THEN {home_html} ELSE fetch(url)) :
                      IF h = <<>>
                      THEN UNCHANGED rowFound
                      ELSE \E x \in {extract_emails_and_forms(url, h[1])} :
                           \E keep \in {{e \in x.emails :
                                           \/ ~PREFER_COMPANY_DOMAIN
                                           \/ same_reg_domain(SplitLast(e, "@"), website)}} :
                               /\ emails' = emails \cup keep
                               /\ email_sources' = AddSources(email_sources, keep, url)
                               /\ forms' = IF x.has_form THEN Append(forms, url) ELSE forms
                               /\ extracted' = extracted \cup x.emails
    /\ cidx' = cidx + 1
    /\ UNCHANGED <<notRun, runCfg, rpc, sheet, rownum, end_row, row_vals, website, home_html,
                   cand, huntLocals, wlog, started, rreqs>>

\* line 383: after the loop, the hunt is tried when nothing was found
run_crawl_end ==
    /\ rpc = "pages"
    /\ cidx > Len(Prefix(cand, MAX_PAGES_PER_SITE))
    /\ rpc' = IF emails = {} /\ forms = <<>> /\ website # "" THEN "hunt" ELSE "finish"
    /\ UNCHANGED <<notRun, runCfg, sheet, rownum, end_row, row_vals, website, crawlLocals,
                   huntLocals, rowFound, wlog, flog, started, rreqs>>

\* google_contact_hunt (main.py), lines 250-288: the searches.  run's emails and
\* forms are empty when the hunt is entered, so what the hunt collects and
\* returns is kept in them directly.
run_hunt_search ==
    /\ rpc = "hunt"
    /\ IF ~cse_configured \/ website = ""
       THEN rpc' = "finish" /\ UNCHANGED huntLocals
       ELSE /\ \E feed \in HuntFeeds : hcand' = main_hunt_candidates(website, feed)
            /\ hidx' = 1
            /\ rpc' = "hunt_fetch"
    /\ UNCHANGED <<notRun, runCfg, sheet, rownum, end_row, row_vals, website, crawlLocals,
                   rowFound, wlog, flog, started, rreqs>>

\* google_contact_hunt (main.py), lines 290-302: one candidate is fetched
run_hunt_fetch ==
    /\ rpc = "hunt_fetch"
    /\ hidx <= Len(hcand)
    /\ LET url == hcand[hidx]
       IN  /\ flog' = Append(flog, FetchLog(url, "hunt"))
           /\ \E h \in fetch(url) :
                 IF h = <<>>
                 THEN UNCHANGED rowFound
                 ELSE \E x \in {extract_emails_and_forms(url, h[1])} :
                          /\ emails' = emails \cup x.emails
                          /\ email_sources' = AddSources(email_sources, x.emails, url)
                          /\ forms' = IF x.has_form /\ forms = <<>> THEN << url >> ELSE forms
                          /\ extracted' = extracted \cup x.emails
    /\ IF emails' # {} /\ forms' # <<>>
       THEN rpc' = "finish" /\ hcand' = <<>> /\ hidx' = 1
       ELSE rpc' = rpc /\ hcand' = hcand /\ hidx' = hidx + 1
    /\ UNCHANGED <<notRun, runCfg, sheet, rownum, end_row, row_vals, website, crawlLocals,
                   wlog, started, rreqs>>

\* google_contact_hunt (main.py), line 303: the candidates are used up
run_hunt_end ==
    /\ rpc = "hunt_fetch"
    /\ hidx > Len(hcand)
    /\ rpc' = "finish" /\ hcand' = <<>> /\ hidx' = 1
    /\ UNCHANGED <<notRun, runCfg, sheet, rownum, end_row, row_vals, website, crawlLocals,
                   rowFound, wlog, flog, started, rreqs>>

\* lines 392-432: the outcome is decided and written.  next(iter(emails)) is any
\* element of the set: the iteration order of a set of str is not fixed.
run_finish ==
    /\ rpc = "finish"
    /\ \E best_email \in (IF emails = {} THEN {""} ELSE emails) :
          LET best_form == IF forms = <<>> THEN "" ELSE forms[1]
              site      == IF website # "" THEN website ELSE row_vals.Domain
          IN  WriteCells(Outcome(emails, email_sources, best_email, best_form,
                                 ALLOW_GUESS, site),
                         Continue)
    /\ rownum' = IF rpc' = "row" THEN rownum + 1 ELSE rownum
    /\ UNCHANGED <<notRun, runCfg, end_row, row_vals, website, crawlLocals, huntLocals,
                   rowFound, flog, started, rreqs>>

NextRun ==
    \/ run_start
    \/ run_read_row
    \/ run_resolve
    \/ run_fetch_home
    \/ run_crawl_page
    \/ run_crawl_end
    \/ run_hunt_search
    \/ run_hunt_fetch
    \/ run_hunt_end
    \/ run_finish

SpecRun == InitRun /\ [][NextRun]_vars

\* ------------------------------------------------------------------------
\* Properties of main.run
\* ------------------------------------------------------------------------
\* The cells one step of run writes.
NewWrites == SubSeq(wlog', Len(wlog) + 1, Len(wlog'))

\* C5: with guessing disabled, when the crawl and the hunt of a row found no
\* address and no form, the cells written for the row hold no ContactEmail and
\* no ContactFormURL and the Status written is no found status; and an address
\* written as ContactEmail was extracted from a page fetched for the row.
C5_NothingFoundNothingWritten ==
    [][(rpc = "finish" /\ ~ALLOW_GUESS) =>
          \A i \in 1..Len(NewWrites) :
             /\ NewWrites[i].row = rownum
             /\ (emails = {} /\ forms = <<>>) =>
                   /\ NewWrites[i].col \notin {"ContactEmail", "ContactFormURL"}
                   /\ NewWrites[i].col = "Status" => NewWrites[i].val = "no_contact"
             /\ NewWrites[i].col = "ContactEmail" => NewWrites[i].val \in extracted]_vars

\* Guessing is disabled; an earlier row got an address written; the row just
\* finished was crawled and hunted, pages were fetched for it in both phases,
\* nothing was found, and its Status was written as no_contact.
C5_Witness ==
    /\ ~ALLOW_GUESS
    /\ rpc \in {"row", "done"}
    /\ emails = {} /\ forms = <<>>
    /\ \E i \in 1..Len(flog) : flog[i].phase = "hunt"
    /\ \E i \in 1..Len(wlog) : wlog[i].col = "ContactEmail"
    /\ Len(wlog) >= 3
    /\ wlog[Len(wlog) - 2].col = "Status"
    /\ wlog[Len(wlog) - 2].val = "no_contact"
    /\ \A i \in 1..Len(wlog) :
          wlog[i].row = wlog[Len(wlog)].row =>
             wlog[i].col \notin {"ContactEmail", "ContactFormURL"}

Written(r, c) == \E i \in 1..Len(wlog) : wlog[i].row = r /\ wlog[i].col = c

\* C6: no exception leaves run, and when run ends every row with a Company that
\* the loop body was entered for has a Status and a LastChecked written.
C6_FailureNeverAbortsRun ==
    /\ rpc # "aborted"
    /\ rpc = "done" => \A r \in started : Written(r, "Status") /\ Written(r, "LastChecked")

\* A request that was answered 200 with at least one link that is not on a
\* blocked host.
YieldsCandidate(rq) ==
    /\ ~rq.resp.exc
    /\ rq.resp.status = 200
    /\ \E i \in 1..Len(rq.resp.items) :
          /\ rq.resp.items[i] # ""
          /\ registrable_domain(rq.resp.items[i]) \notin MAIN_BAD_HOSTS

\* C11: find_official_site (main.py) sends its queries in their order, and sends
\* no request after one that yielded a link that is not on a blocked host.
C11_StopsAtFirstCandidate ==
    \A i \in 1..Len(rreqs) :
        /\ \A j \in (i + 1)..Len(rreqs) :
              rreqs[i].fallback = rreqs[j].fallback => rreqs[i].q <= rreqs[j].q
        /\ YieldsCandidate(rreqs[i]) => i = Len(rreqs)

\* ------------------------------------------------------------------------
\* extract.py: extract_contacts
\* ------------------------------------------------------------------------
\* Repeated calls of extract_contacts on the same arguments.
MaxCalls == 2

\* The characters of the addresses and URLs used here, in code-point order.
CODE_POINTS == " +-./0123456789:?@ABCDEFGHIJKLMNOPQRSTUVWXYZ_abcdefghijklmnopqrstuvwxyz"

\* a < b for Python strings
RECURSIVE StrLess(_, _)
StrLess(a, b) ==
    IF Len(b) = 0 THEN FALSE
    ELSE IF Len(a) = 0 THEN TRUE
    ELSE IF Ch(a, 1) = Ch(b, 1) THEN StrLess(SubSeq(a, 2, Len(a)), SubSeq(b, 2, Len(b)))
    ELSE Find(CODE_POINTS, Ch(a, 1)) < Find(CODE_POINTS, Ch(b, 1))

\* sorted(S) for a collection of strings
RECURSIVE sorted(_)
sorted(S) ==
    IF S = {} THEN <<>>
    ELSE \* the least string first
         Only({<<least>> \o sorted(S \ {least}) :
               least \in {CHOOSE x \in S : \A y \in S \ {x} : StrLess(x, y)}})

\* extract.py's _registrable_domain, the same code as main.py's registrable_domain
_registrable_domain(url_or_host) == registrable_domain(url_or_host)

\* A page's HTML, as extract.py reads it: the targets of its mailto: links
\* (MAILTO_RE, written without character references), the addresses in its
\* visible text (EMAIL_RE), its title, and whether one of its forms passes
\* _has_contact_form.
Html(mailtos, text_emails, title, form) ==
    [mailtos |-> mailtos, text_emails |-> text_emails, title |-> title, form |-> form]

CONTACT_URL_TOKENS == {"contact", "get-in-touch", "enquire", "inquiry", "kontakt", "impressum"}

\* _looks_like_contact_url(url)
_looks_like_contact_url(url) ==
    \E u \in {Lower(url)} :
        \/ \E k \in CONTACT_URL_TOKENS : Contains(u, k)
        \/ \E w \in {"/support", "/help"} : Contains(u, w \o "/") \/ EndsWith(u, w)

CONTACT_TITLE_TOKENS == {"contact", "get in touch", "support", "help", "impressum", "kontakt"}

\* _looks_like_contact_title(soup)
_looks_like_contact_title(page) ==
    \E k \in CONTACT_TITLE_TOKENS : Contains(Lower(Strip(page.title)), k)

\* _extract_emails_from_html(html)
_extract_emails_from_html(page) ==
    ({Strip(SplitFirst(m, "?")) : m \in SeqToSet(page.mailtos)} \ {""})
    \cup {Strip(m) : m \in SeqToSet(page.text_emails)}

\* extract_contacts, lines 138-146: reg_base, for a call without base_url
reg_base ==
    _registrable_domain(IF preferred_domain # "" THEN preferred_domain
                        ELSE IF pages # <<>> THEN pages[1].url
                        ELSE "")

\* _is_company_email(e), lines 171-177
_is_company_email(e) ==
    /\ Contains(e, "@")
    /\ \E rb \in {reg_base} :
          /\ rb # ""
          /\ EndsWith(_registrable_domain(Lower(SubSeq(e, Find(e, "@") + 1, Len(e)))), rb)

\* lines 179-180
prioritized == {e \in emails_all : ~EX_PREFER_COMPANY_DOMAIN \/ _is_company_email(e)}
fallback == emails_all \ prioritized

\* The (url, html) items of the dicts extract_contacts is called with.
PageDicts ==
    { <<>>,
      << [url |-> "https://acme.com/contact",
          html |-> Html(<< "info@acme.com?subject=Hi" >>, << "sales@acme.com" >>, "Acme", TRUE)],
         [url |-> "https://acme.com/support",
          html |-> Html(<<>>, << "sales@acme.com" >>, "Acme", FALSE)] >>,
      << [url |-> "https://acme.com",
          html |-> Html(<<>>, << "Info@acme.com" >>, "Acme", FALSE)],
         [url |-> "https://acme.com/about",
          html |-> Html(<< "info@acme.com" >>, <<>>, "Contact us", FALSE)] >>,
      << [url |-> "https://acme.com",
          html |-> Html(<<>>, << "noreply@acme.com" >>, "Acme", FALSE)] >>,
      << [url |-> "https://acme.com/team",
          html |-> Html(<< "jo@gmail.com" >>, << "info@acme.com" >>, "Team", FALSE)] >>,
      << [url |-> "https://acme.com/team",
          html |-> Html(<<>>, << "info@acme.com", "jo@notacme.com" >>, "Team", FALSE)] >> }

InitExtract ==
    /\ IdleCfg
    /\ IdleCrawl
    /\ IdleSearch
    /\ IdleRun
    /\ xpc = "ready"
    /\ EX_PREFER_COMPANY_DOMAIN \in BOOLEAN
    /\ pages \in PageDicts
    /\ preferred_domain \in {"", "acme.com"}
    /\ xi = 1
    /\ emails_all = {}
    /\ ex_email_sources = {}
    /\ ex_forms = {}
    /\ returned = <<>>

\* A call of extract_contacts(pages, preferred_domain=preferred_domain), lines
\* 138-150
extract_call ==
    /\ xpc = "ready"
    /\ Len(returned) < MaxCalls
    /\ xpc' = "loop"
    /\ xi' = 1
    /\ emails_all' = {}
    /\ ex_email_sources' = {}
    /\ ex_forms' = {}
    /\ UNCHANGED <<notExtract, EX_PREFER_COMPANY_DOMAIN, pages, preferred_domain, returned>>

\* lines 152-168: one iteration of the loop over the pages
extract_page ==
    /\ xpc = "loop"
    /\ xi <= Len(pages)
    /\ \E url \in {pages[xi].url}, found \in {_extract_emails_from_html(pages[xi].html)} :
          /\ ex_email_sources' =
                ex_email_sources \cup
                {<<e, url>> : e \in {f \in found : \A es \in ex_email_sources : es[1] # f}}
          /\ emails_all' = emails_all \cup found
          /\ ex_forms' = IF \/ _looks_like_contact_url(url)
                            \/ _looks_like_contact_title(pages[xi].html)
                            \/ pages[xi].html.form
                         THEN ex_forms \cup {url} ELSE ex_forms
    /\ xi' = xi + 1
    /\ UNCHANGED <<notExtract, xpc, EX_PREFER_COMPANY_DOMAIN, pages, preferred_domain, returned>>

\* lines 179-191: the best picks and the return.  prioritized[0], fallback[0] and
\* next(iter(forms)) are the first element in the iteration order of a set of
\* strings, which depends on the hash seed of the process: any element.
extract_return ==
    /\ xpc = "loop"
    /\ xi > Len(pages)
    /\ \E best_email \in (IF prioritized # {} THEN prioritized
                          ELSE IF fallback # {} THEN fallback ELSE {""}),
          best_form \in (IF ex_forms # {} THEN ex_forms ELSE {""}) :
          returned' = Append(returned,
                             [emails        |-> sorted(prioritized) \o sorted(fallback),
                              email_sources |-> ex_email_sources,
                              forms         |-> sorted(ex_forms),
                              best_email    |-> best_email,
                              best_form     |-> best_form])
    /\ xpc' = IF Len(returned) + 1 < MaxCalls THEN "ready" ELSE "done"
    /\ UNCHANGED <<notExtract, EX_PREFER_COMPANY_DOMAIN, pages, preferred_domain, xi,
                   emails_all, ex_email_sources, ex_forms>>

NextExtract == extract_call \/ extract_page \/ extract_return

SpecExtract == InitExtract /\ [][NextExtract]_vars

\* ------------------------------------------------------------------------
\* Properties of extract_contacts
\* ------------------------------------------------------------------------
\* C13: calls of extract_contacts on the same pages and the same
\* preferred_domain return the same best_email and the same best_form.
C13_BestPickDeterministic ==
    \A i, j \in 1..Len(returned) :
        /\ returned[i].best_email = returned[j].best_email
        /\ returned[i].best_form = returned[j].best_form

\* The addresses _extract_emails_from_html finds on page k of pages, in lower case.
LowerFound(k) == {Lower(f) : f \in _extract_emails_from_html(pages[k].html)}

\* The first page of pages that holds address e, in whatever case.
FirstSeenOn(e) ==
    pages[CHOOSE k \in 1..Len(pages) :
              /\ Lower(e) \in LowerFound(k)
              /\ \A j \in 1..(k - 1) : Lower(e) \notin LowerFound(j)].url

\* C14: in what extract_contacts returns, no two entries of "emails" are the same
\* address in lower case, and the source recorded for an address is the first
\* page the address was seen on.
C14_DedupedByLowercase ==
    \A n \in 1..Len(returned) :
        /\ \A i, j \in 1..Len(returned[n].emails) :
              Lower(returned[n].emails[i]) = Lower(returned[n].emails[j]) => i = j
        /\ \A es \in returned[n].email_sources : es[2] = FirstSeenOn(es[1])

BLOCKED_LOCAL_PARTS ==
    {"noreply", "no-reply", "donotreply", "postmaster", "mailer-daemon", "bounce",
     "example", "test"}

HasBlockedLocalPart(e) ==
    \E t \in BLOCKED_LOCAL_PARTS : Contains(Lower(SplitFirst(e, "@")), t)

\* C15: no address that extract_contacts returns (in "emails" or as best_email)
\* has a blocked local-part.
C15_NoBlockedLocalPart ==
    \A n \in 1..Len(returned) :
        /\ \A i \in 1..Len(returned[n].emails) : ~HasBlockedLocalPart(returned[n].emails[i])
        /\ ~HasBlockedLocalPart(returned[n].best_email)

\* The address e is at the company's domain: its host has the registrable domain
\* of preferred_domain.
OnDomain(e) ==
    registrable_domain(SplitLast(e, "@")) = registrable_domain(preferred_domain)

\* C16: with PREFER_COMPANY_DOMAIN true and a preferred_domain, when the pages hold
\* one on-domain and one off-domain address, best_email is the on-domain one.
C16_PrefersCompanyDomain ==
    \A n \in 1..Len(returned) :
        ( /\ EX_PREFER_COMPANY_DOMAIN
          /\ preferred_domain # ""
          /\ Len(returned[n].emails) = 2
          /\ \E i, j \in 1..2 : /\ OnDomain(returned[n].emails[i])
                                /\ ~OnDomain(returned[n].emails[j]) )
        => OnDomain(returned[n].best_email)

\* The calls of ws.update_cell run has made for row r.
WritesTo(r) == {i \in 1..Len(wlog) : wlog[i].row = r}

\* C18: run performs at most one write operation on the sheet per company row.
C18_OneWritePerRow == \A r \in 2..(Len(sheet) + 1) : Cardinality(WritesTo(r)) <= 1

\* C23: when run has finished, every row it processed is consistent: a row with
\* Status "no_contact" has empty ContactEmail and ContactFormURL cells, and a row
\* with a ContactEmail has Status "email_found".
C23_ProcessedRowsConsistent ==
    rpc = "done" =>
        \A r \in started :
            /\ sheet[r - 1].Status = "no_contact" =>
                  sheet[r - 1].ContactEmail = "" /\ sheet[r - 1].ContactFormURL = ""
            /\ sheet[r - 1].ContactEmail # "" => sheet[r - 1].Status = "email_found"

=============================================================================
